---- MODULE Spec2Model ----
(***************************************************************************)
(* Model of the loan lifecycle of mosaical_platform: views.py (create_loan,*)
(* repay_loan, create_dpo, buy_dpo, update_dpo_price, hidden_faucet),      *)
(* utils.py (InterestCalculator, YieldCalculator, LiquidationEngine) and   *)
(* valuation_oracle.py (ValuationOracle.update_all_valuations).            *)
(*                                                                         *)
(* Units.  Money fields are DecimalField(decimal_places=8): an amount is   *)
(* the integer number of 1e-8 vBTC it holds.  Percent fields are           *)
(* DecimalField(decimal_places=2): a percentage is the integer number of   *)
(* hundredths of a percent (7000 = 70.00 %).  Time is the integer number   *)
(* of whole days, which is all the code reads (timedelta.days).            *)
(*                                                                         *)
(* Python typing.  Model fields read from the database are decimal.Decimal *)
(* and Decimal refuses arithmetic with float: Decimal ** float,            *)
(* Decimal + float and Decimal * float raise TypeError.  The operators     *)
(* below return the marker TypeError where the source mixes the two.       *)
(***************************************************************************)
EXTENDS Integers, Sequences, FiniteSets, TLC

\* ------------------------------------------------------------------ bounds
MaxDay == 2
MaxLoans == 2
MaxDpos == 2
MaxLedger == 3
MaxFaucetClaims == 1
MaxPending == 2

\* ------------------------------------------------------- program constants
\* Decimal('10.0') vBTC per faucet claim, in 1e-8 vBTC
faucet_amount == 1000000000
\* Decimal('0.00000001'), the "fully repaid" threshold, in 1e-8 vBTC
RepaidThreshold == 1
\* NFTCollection.max_ltv_ratio of the sample collection, Decimal('70.00')
max_ltv_ratio == 7000
\* NFTVault.ownership_percentage default 100.00
FullOwnership == 10000
\* update_loan_interest accrues when days / 30.44 >= 0.033, i.e. days >= 2
\* (1 / 30.44 = 0.03285 < 0.033 <= 2 / 30.44)
MinAccrualDays == 2
\* process_nft_yield acts when days_passed >= 1
MinYieldDays == 1
\* NFTCollection.base_yield_rate of the sample collection, Decimal('2.50')
\* percent per month
base_yield_rate == 250
\* NFTVault.utility_score default
utility_score == 50

Users == {"u1", "u2"}
Assets == {"n1", "n2"}
InitOwner == [n \in Assets |-> IF n = "n1" THEN "u1" ELSE "u2"]
InitValues == {10}
InitBalances == {0, 5}

\* ------------------------------------------------------------ input domains
LoanAmounts == {-1, 0, 7, 8}
RepayAmounts == {0, 1, 6, 7, 8}
Percentages == {0, 50, 100, 101}
OracleValues == {6, 10}
\* deposits and loans large enough for a day's yield to reach 1e-8 and for
\* the loan-to-value ratios 56.0, 66.5 and 70.0 to be whole amounts
OpsValues == {2000}
OpsAmounts == {-1, 1, 1120, 1330, 1400}
\* a loan far below max_ltv and one at max_ltv
LiquidationAmounts == {1, 1400}
\* which write of a liquidation fails (0: none)
FailPoints == 0..4
\* a loan at the limit of an asset worth 2000, and repayments of part and all
\* of it, any two of which come to more than the loan paid out
RaceLoanAmounts == {1400}
RaceRepayAmounts == {800, 1400}
DpoShares == {6000}
DpoPrices == {2}

Null == "None"
TypeError == "TypeError"

\* What a Python call gives back: a Decimal, or a TypeError raised
Returned(v) == [raised |-> FALSE, value |-> v]
Raised == [raised |-> TRUE, value |-> 0]

\* What the most recent call handed back to its caller, for the calls whose
\* caller is observed: op names the routine, loan or nft its argument (0 or
\* "None" if it has none), error the exception it raised ("None" if it
\* returned), and tier, amount or list the value it returned.  A returned
\* amount is an unrounded Decimal: it is held in hundredths of 1e-8 vBTC.
Call(op, loan, nft, error, tier, amount, list) ==
    [op |-> op, loan |-> loan, nft |-> nft, error |-> error,
     tier |-> tier, amount |-> amount, list |-> list]

NoCall == Call(Null, 0, Null, Null, Null, 0, << >>)

VARIABLES nfts, loans, balance, dpos, ledger, faucet_claims, now, pending,
          returned, in_flight

vars == <<nfts, loans, balance, dpos, ledger, faucet_claims, now, pending,
          returned, in_flight>>

\* A request whose caller is not observed and that runs without interleaving
Unobserved == UNCHANGED <<returned, in_flight>>

\* A request between two observed calls: what the earlier call returned is
\* no longer the most recent result
Discarded == returned' = NoCall /\ UNCHANGED in_flight

\* ---------------------------------------------------------------- helpers
Abs(x) == IF x < 0 THEN -x ELSE x

\* Decimal.quantize under the default context (ROUND_HALF_EVEN), as
\* django.db.backends.utils.format_number applies it when a DecimalField is
\* saved: num / den rounded to the nearest integer, ties to even.  den > 0.
RoundHalfEven(num, den) ==
    LET q == num \div den
        r == num % den
    IN  IF 2 * r < den THEN q
        ELSE IF 2 * r > den THEN q + 1
        ELSE IF q % 2 = 0 THEN q ELSE q + 1

\* (current_debt / estimated_value) * 100 as stored in Loan.ltv_ratio
ltv_of(debt, value) == RoundHalfEven(debt * 10000, value)

Txn(user, type, amount, nft, loan) ==
    [user |-> user, transaction_type |-> type, amount |-> amount,
     related_nft |-> nft, related_loan |-> loan]

ActiveLoansOf(ls, n) ==
    {i \in DOMAIN ls : ls[i].nft_collateral = n /\ ls[i].status = "ACTIVE"}

RECURSIVE SumDpo(_, _, _)
SumDpo(ds, n, i) ==
    IF i > Len(ds) THEN 0
    ELSE (IF ds[i].original_nft = n THEN ds[i].ownership_percentage ELSE 0)
         + SumDpo(ds, n, i + 1)

\* ------------------------------------------------------------------- Init
\* The assets as deposit_nft leaves them (views.py 84-92; models.py 42-45)
InitNfts ==
    \E iv \in InitValues :
        nfts = [n \in Assets |->
                  [owner |-> InitOwner[n], estimated_value |-> iv,
                   status |-> "DEPOSITED", ownership_percentage |-> FullOwnership,
                   deposit_date |-> 0, last_yield_date |-> Null]]

Init ==
    /\ InitNfts
    /\ loans = << >>
    /\ balance = [u \in Users |-> 0]
    /\ dpos = << >>
    /\ ledger = << >>
    /\ faucet_claims = {}
    /\ now = 0
    /\ pending = {}
    /\ returned = NoCall
    /\ in_flight = {}

\* ------------------------------------------------------------ create_loan
\* nft_available with the status left out of the lookup
nft_available_any_status(nft, u) == nft.owner = u

\* views.py 127: NFTVault.objects.get(id=nft_id, owner=request.user,
\* status='DEPOSITED') finds a row
nft_available(nft, u) == nft.owner = u /\ nft.status = "DEPOSITED"

\* exceeds_max_loan with the limit check left out
exceeds_max_loan_nocheck(nft, loan_amount) == FALSE

\* views.py 130-132: max_loan = estimated_value * max_ltv_ratio / 100;
\* loan_amount > max_loan
exceeds_max_loan(nft, loan_amount) ==
    loan_amount * 10000 > nft.estimated_value * max_ltv_ratio

\* views.py 138-145: Loan.objects.create(...); status defaults to ACTIVE,
\* last_interest_update is auto_now_add
new_loan(u, n, nft, loan_amount) ==
    [borrower |-> u, nft_collateral |-> n,
     principal_amount |-> loan_amount, current_debt |-> loan_amount,
     ltv_ratio |-> ltv_of(loan_amount, nft.estimated_value),
     interest_rate |-> 500, status |-> "ACTIVE",
     last_interest_update |-> now]

\* views.py 137-164: the transaction.atomic() block.  nft is the row as the
\* handler read it at line 127; nft.save() writes that copy back whole.
create_loan_commit(u, n, nft, loan_amount) ==
    /\ Len(loans) < MaxLoans
    /\ Len(ledger) < MaxLedger
    /\ loans' = Append(loans, new_loan(u, n, nft, loan_amount))
    /\ nfts' = [nfts EXCEPT ![n] = [nft EXCEPT !.status = "COLLATERALIZED"]]
    /\ balance' = [balance EXCEPT ![u] = @ + loan_amount]
    /\ ledger' = Append(ledger,
                   Txn(u, "LOAN_CREATE", loan_amount, n, Len(loans) + 1))
    /\ UNCHANGED <<dpos, faucet_claims, now>>

\* views.py 120-172, one request processed without interleaving
create_loan(u, n, loan_amount) ==
    /\ IF ~nft_available(nfts[n], u)
       THEN /\ UNCHANGED <<nfts, loans, balance, dpos, ledger, faucet_claims, now>>
       ELSE IF exceeds_max_loan(nfts[n], loan_amount)
       THEN /\ UNCHANGED <<nfts, loans, balance, dpos, ledger, faucet_claims, now>>
       ELSE create_loan_commit(u, n, nfts[n], loan_amount)
    /\ UNCHANGED pending

\* ------------------------------------------------------------- repay_loan
\* views.py 366: Loan.objects.get(id=loan_id, borrower=request.user,
\* status='ACTIVE') finds a row
loan_repayable(l, u) ==
    /\ l \in DOMAIN loans
    /\ loans[l].borrower = u
    /\ loans[l].status = "ACTIVE"

\* views.py 369
invalid_repay_amount(repay_amount, current_debt) ==
    repay_amount <= 0 \/ repay_amount > current_debt

\* fully_repaid with the threshold dropped: only a debt of exactly 0 closes
fully_repaid_at_zero(current_debt) == current_debt <= 0

\* views.py 385: loan.current_debt <= Decimal('0.00000001')
fully_repaid(current_debt) == current_debt <= RepaidThreshold

\* release_collateral with the asset left as it was
release_collateral_skipped(ns, n) == ns

\* views.py 390-391: loan.nft_collateral.status = 'DEPOSITED'; save()
release_collateral(ns, n) == [ns EXCEPT ![n].status = "DEPOSITED"]

\* views.py 359-415
repay_loan(u, l, repay_amount) ==
    /\ IF ~loan_repayable(l, u)
       THEN /\ UNCHANGED <<nfts, loans, balance, ledger>>
       ELSE IF invalid_repay_amount(repay_amount, loans[l].current_debt)
       THEN /\ UNCHANGED <<nfts, loans, balance, ledger>>
       ELSE IF balance[u] < repay_amount
       THEN /\ UNCHANGED <<nfts, loans, balance, ledger>>
       ELSE LET debt == loans[l].current_debt - repay_amount
                n == loans[l].nft_collateral IN
            /\ Len(ledger) < MaxLedger
            /\ balance' = [balance EXCEPT ![u] = @ - repay_amount]
            /\ IF fully_repaid(debt)
               THEN /\ loans' = [loans EXCEPT ![l].current_debt = 0,
                                              ![l].status = "REPAID"]
                    /\ nfts' = release_collateral(nfts, n)
               ELSE /\ loans' = [loans EXCEPT ![l].current_debt = debt]
                    /\ nfts' = nfts
            /\ ledger' = Append(ledger, Txn(u, "LOAN_REPAY", repay_amount, n, l))
    /\ UNCHANGED <<dpos, faucet_claims, now, pending>>

\* ---------------------------------------------------------- hidden_faucet
\* views.py 197-201: FaucetClaim rows of the user dated today
today_claims(u) == Cardinality({c \in faucet_claims : c.user = u /\ c.day = now})

\* views.py 178-234 (POST with the valid key, user logged in)
hidden_faucet(u) ==
    IF today_claims(u) >= 1
    THEN /\ UNCHANGED <<nfts, loans, balance, dpos, ledger, faucet_claims, now, pending>>
    ELSE /\ Cardinality({c \in faucet_claims : c.user = u}) < MaxFaucetClaims
         /\ Len(ledger) < MaxLedger
         /\ balance' = [balance EXCEPT ![u] = @ + faucet_amount]
         /\ faucet_claims' = faucet_claims \cup {[user |-> u, day |-> now]}
         /\ ledger' = Append(ledger, Txn(u, "FAUCET_CLAIM", faucet_amount, Null, Null))
         /\ UNCHANGED <<nfts, loans, dpos, now, pending>>

\* timezone.now() advances by one day
Tick ==
    /\ now < MaxDay
    /\ now' = now + 1
    /\ UNCHANGED <<nfts, loans, balance, dpos, ledger, faucet_claims, pending>>

\* --------------------------------------------------------- database image
\* The rows a utils.py routine reads and writes, threaded through its steps
Db == [loans |-> loans, nfts |-> nfts, dpos |-> dpos, ledger |-> ledger]

\* ----------------------------------------------------- InterestCalculator
\* calculate_compound_interest giving back a negative amount
calculate_compound_interest_negative(principal, rate, time_days) == Returned(-1)

\* utils.py 11-16: principal and rate are Decimal, time_months is the float
\* days / 30.44, so (1 + monthly_rate) ** time_months raises TypeError
calculate_compound_interest(principal, rate, time_days) == Raised

\* update_loan_interest adding interest of 1 whatever time has passed
update_loan_interest_unguarded(db, l) ==
    <<[db EXCEPT !.loans[l].current_debt = @ + 1,
                 !.ledger = Append(@, Txn(db.loans[l].borrower, "LOAN_REPAY",
                                          -1, Null, l))],
      Returned(1)>>

\* utils.py 19-47 on loan l of db: <<db after, interest returned or TypeError>>
update_loan_interest(db, l) ==
    LET loan == db.loans[l]
        days == now - loan.last_interest_update
    IN  IF days >= MinAccrualDays
        THEN LET interest == calculate_compound_interest(
                                 loan.current_debt, loan.interest_rate, days)
             IN  IF interest.raised
                 THEN <<db, Raised>>
                 ELSE LET debt == loan.current_debt + interest.value
                          value == db.nfts[loan.nft_collateral].estimated_value
                      IN  <<[db EXCEPT
                               !.loans[l].current_debt = debt,
                               !.loans[l].ltv_ratio = ltv_of(debt, value),
                               !.loans[l].last_interest_update = now,
                               !.ledger = Append(@, Txn(loan.borrower, "LOAN_REPAY",
                                            -interest.value, Null, l))],
                            interest>>
        ELSE <<db, Returned(0)>>

\* utils.py 50-60 from loan i on; snap is the queryset of ACTIVE loans read at
\* line 53.  An exception leaves the loop; earlier saves stay.
RECURSIVE update_loans_from(_, _, _)
update_loans_from(db, snap, i) ==
    IF i > Len(snap) THEN <<db, "ok">>
    ELSE IF snap[i].status # "ACTIVE" THEN update_loans_from(db, snap, i + 1)
    ELSE LET r == update_loan_interest(db, i)
         IN  IF r[2].raised THEN <<r[1], TypeError>>
             ELSE update_loans_from(r[1], snap, i + 1)

\* utils.py 49-60
update_all_loans ==
    LET r == update_loans_from(Db, loans, 1) IN
    /\ Len(r[1].ledger) <= MaxLedger
    /\ loans' = r[1].loans
    /\ ledger' = r[1].ledger
    /\ UNCHANGED <<nfts, balance, dpos, faucet_claims, now, pending>>

\* -------------------------------------------------------- YieldCalculator
\* utils.py 66-78: base_rate is Decimal, utility_bonus = (score - 50) / 1000
\* is a float, so base_rate + utility_bonus raises TypeError
calculate_nft_yield(nft) == Raised

\* utils.py 68-72: base_rate + utility_bonus as a number, the monthly rate in
\* hundredths of a percent
monthly_yield_rate == base_yield_rate + 10 * (utility_score - 50)

\* utils.py 73-76, 90: the yield the expressions denote for days_passed days,
\* estimated_value * daily_yield_rate * ownership_percentage / 100 *
\* days_passed with daily_yield_rate = monthly_yield_rate / 30.44, as the
\* fraction yield_num / yield_den of 1e-8 vBTC
yield_num(nft, days_passed) ==
    nft.estimated_value * nft.ownership_percentage * days_passed

yield_den == 3044 * (1000000 \div monthly_yield_rate)

\* utils.py 84-86: days_passed for asset n
days_since_yield(n) ==
    now - (IF nfts[n].last_yield_date # Null
           THEN nfts[n].last_yield_date ELSE nfts[n].deposit_date)

\* utils.py 81-202 on asset n: TypeError or the yield returned.  Line 89
\* raises before the first write (line 94), so no row changes.
process_nft_yield(n) ==
    LET nft == nfts[n]
        last_yield == IF nft.last_yield_date # Null
                      THEN nft.last_yield_date ELSE nft.deposit_date
        days_passed == now - last_yield
    IN  IF days_passed >= MinYieldDays THEN calculate_nft_yield(nft) ELSE Returned(0)

\* utils.py 208: exclude(status__in=['WITHDRAWN', 'LIQUIDATED'])
yield_eligible(n) == nfts[n].status \notin {"WITHDRAWN", "LIQUIDATED"}

\* utils.py 204-215: what the call gives back.  The first asset that raises
\* ends the loop; otherwise every asset returned 0.
process_all_yields_result ==
    IF \E n \in Assets : yield_eligible(n) /\ process_nft_yield(n).raised
    THEN Raised
    ELSE Returned(0)

\* utils.py 204-215: no asset reaches a write
process_all_yields ==
    /\ process_all_yields_result \in {Raised, Returned(0)}
    /\ UNCHANGED vars

\* ------------------------------------------------------ LiquidationEngine
\* utils.py 226-243 after the accrual of line 224: the comparison with
\* max_ltv is Decimal >= Decimal; max_ltv * 0.95 is Decimal * float and
\* raises TypeError, so no tier below LIQUIDATION is ever returned
risk_tier(current_debt, value) ==
    IF current_debt * 10000 >= max_ltv_ratio * value
    THEN "LIQUIDATION"
    ELSE TypeError

\* utils.py 220-243 on loan l of db: <<db after, tier or TypeError>>
check_liquidation_risk(db, l) ==
    LET r == update_loan_interest(db, l) IN
    IF r[2].raised THEN <<db, TypeError>>
    ELSE <<r[1], risk_tier(r[1].loans[l].current_debt,
                           r[1].nfts[r[1].loans[l].nft_collateral].estimated_value)>>

\* invalid_percentage with the range check left out
invalid_percentage_nocheck(liquidation_percentage) == FALSE

\* utils.py 248
invalid_percentage(liquidation_percentage) ==
    liquidation_percentage < 1 \/ liquidation_percentage > 100

\* full_liquidation with the ledger amount read after the debt is cleared
full_liquidation_late_amount(db, l) ==
    LET loan == db.loans[l]
        n == loan.nft_collateral
    IN  [db EXCEPT
           !.loans[l].status = "LIQUIDATED",
           !.loans[l].current_debt = 0,
           !.nfts[n].status = "LIQUIDATED",
           !.nfts[n].ownership_percentage = 0,
           !.ledger = Append(@, Txn(loan.borrower, "FULL_LIQUIDATION", 0, n, l))]

\* utils.py 256-273
full_liquidation(db, l) ==
    LET loan == db.loans[l]
        n == loan.nft_collateral
    IN  [db EXCEPT
           !.loans[l].status = "LIQUIDATED",
           !.loans[l].current_debt = 0,
           !.nfts[n].status = "LIQUIDATED",
           !.nfts[n].ownership_percentage = 0,
           !.ledger = Append(@, Txn(loan.borrower, "FULL_LIQUIDATION",
                                    loan.current_debt, n, l))]

\* liquidation_share with the percentage ignored
liquidation_share_whole(x, p) == x

\* utils.py 252-253: (x * liquidation_percentage) / 100 as a saved field
liquidation_share(x, p) == RoundHalfEven(x * p, 100)

\* utils.py 252-253, 275-300; p is liquidation_percentage.  The fields are
\* rounded to their decimal places when saved; ltv_ratio is computed from the
\* unrounded debt.
partial_liquidation(db, l, p) ==
    LET loan == db.loans[l]
        n == loan.nft_collateral
        nft == db.nfts[n]
        liquidation_amount == liquidation_share(loan.current_debt, p)
        nft_portion == liquidation_share(nft.ownership_percentage, p)
    IN  [db EXCEPT
           !.loans[l].current_debt = RoundHalfEven(loan.current_debt * (100 - p), 100),
           !.loans[l].ltv_ratio =
               RoundHalfEven(loan.current_debt * (100 - p) * 100, nft.estimated_value),
           !.nfts[n].status = "PARTIAL_LIQUIDATED",
           !.nfts[n].ownership_percentage =
               RoundHalfEven(nft.ownership_percentage * (100 - p), 100),
           !.dpos = Append(@, [original_nft |-> n, owner |-> loan.borrower,
                               ownership_percentage |-> nft_portion,
                               purchase_price |-> liquidation_amount,
                               current_price |-> 0, is_for_sale |-> FALSE]),
           !.ledger = Append(@, Txn(loan.borrower, "PARTIAL_LIQUIDATION",
                                    liquidation_amount, n, l))]

\* utils.py 246-302 past the percentage check: the loan's status is not read
liquidate_loan(db, l, p) ==
    IF p = 100 THEN full_liquidation(db, l) ELSE partial_liquidation(db, l, p)

\* the ad-hoc entry point liquidate(loan, percentage): utils.py 246-302 called
\* on any existing loan
liquidate(l, p) ==
    /\ l \in DOMAIN loans
    /\ IF invalid_percentage(p)
       THEN /\ UNCHANGED <<nfts, loans, dpos, ledger>>
       ELSE LET db == liquidate_loan(Db, l, p) IN
            /\ Len(db.ledger) <= MaxLedger
            /\ Len(db.dpos) <= MaxDpos
            /\ loans' = db.loans
            /\ nfts' = db.nfts
            /\ dpos' = db.dpos
            /\ ledger' = db.ledger
    /\ UNCHANGED <<balance, faucet_claims, now, pending>>

\* utils.py 311-320 from loan i on; snap is the queryset of line 308
RECURSIVE check_liquidations_from(_, _, _)
check_liquidations_from(db, snap, i) ==
    IF i > Len(snap) THEN <<db, "ok">>
    ELSE IF snap[i].status # "ACTIVE" THEN check_liquidations_from(db, snap, i + 1)
    ELSE LET r == check_liquidation_risk(db, i)
         IN  IF r[2] = TypeError THEN <<r[1], TypeError>>
             ELSE IF r[2] = "LIQUIDATION"
             THEN check_liquidations_from(liquidate_loan(r[1], i, 100), snap, i + 1)
             ELSE check_liquidations_from(r[1], snap, i + 1)

\* utils.py 304-322, the sweep
check_all_liquidations ==
    LET r == check_liquidations_from(Db, loans, 1) IN
    /\ Len(r[1].ledger) <= MaxLedger
    /\ loans' = r[1].loans
    /\ nfts' = r[1].nfts
    /\ dpos' = r[1].dpos
    /\ ledger' = r[1].ledger
    /\ UNCHANGED <<balance, faucet_claims, now, pending>>

\* -------------------------------------------------------- ValuationOracle
\* valuation_oracle.py 59-62: the value returned lies in [0.5, 3.0] x the
\* recorded value
oracle_can_return(old_value, new_value) ==
    2 * new_value >= old_value /\ new_value <= 3 * old_value

\* valuation_oracle.py 73: abs(new - old) / old > 0.01
value_changed(old_value, new_value) == Abs(new_value - old_value) * 100 > old_value

\* valuation_oracle.py 65-84; f[n] is what calculate_dynamic_value returns
\* for asset n
update_all_valuations ==
    \E f \in [Assets -> OracleValues] :
        /\ \A n \in Assets : oracle_can_return(nfts[n].estimated_value, f[n])
        /\ nfts' = [n \in Assets |->
                      IF value_changed(nfts[n].estimated_value, f[n])
                      THEN [nfts[n] EXCEPT !.estimated_value = f[n]]
                      ELSE nfts[n]]
        /\ loans' = [i \in DOMAIN loans |->
                      IF /\ loans[i].status = "ACTIVE"
                         /\ value_changed(nfts[loans[i].nft_collateral].estimated_value,
                                          f[loans[i].nft_collateral])
                      THEN [loans[i] EXCEPT !.ltv_ratio =
                              ltv_of(loans[i].current_debt, f[loans[i].nft_collateral])]
                      ELSE loans[i]]
        /\ UNCHANGED <<balance, dpos, ledger, faucet_claims, now, pending>>

\* ------------------------------------------------------------- DPO tokens
\* views.py 260-261
total_existing(n) == SumDpo(dpos, n, 1)

\* views.py 249-288
create_dpo(u, n, ownership_percentage, price) ==
    /\ IF nfts[n].owner # u
       THEN /\ UNCHANGED <<dpos, ledger>>
       ELSE IF total_existing(n) + ownership_percentage > 10000
       THEN /\ UNCHANGED <<dpos, ledger>>
       ELSE /\ Len(dpos) < MaxDpos
            /\ Len(ledger) < MaxLedger
            /\ dpos' = Append(dpos, [original_nft |-> n, owner |-> u,
                                     ownership_percentage |-> ownership_percentage,
                                     purchase_price |-> price,
                                     current_price |-> price, is_for_sale |-> TRUE])
            /\ ledger' = Append(ledger, Txn(u, "DPO_CREATED", 0, n, Null))
    /\ UNCHANGED <<nfts, loans, balance, faucet_claims, now, pending>>

\* views.py 290-340
buy_dpo(u, d) ==
    /\ IF ~(d \in DOMAIN dpos /\ dpos[d].is_for_sale)
       THEN /\ UNCHANGED <<dpos, balance, ledger>>
       ELSE IF dpos[d].owner = u
       THEN /\ UNCHANGED <<dpos, balance, ledger>>
       ELSE IF balance[u] < dpos[d].current_price
       THEN /\ UNCHANGED <<dpos, balance, ledger>>
       ELSE LET price == dpos[d].current_price
                seller == dpos[d].owner
                n == dpos[d].original_nft IN
            /\ Len(ledger) + 2 <= MaxLedger
            /\ balance' = [balance EXCEPT ![u] = @ - price, ![seller] = @ + price]
            /\ dpos' = [dpos EXCEPT ![d].owner = u, ![d].purchase_price = price,
                                    ![d].is_for_sale = FALSE]
            /\ ledger' = ledger \o <<Txn(u, "DPO_PURCHASE", price, n, Null),
                                     Txn(seller, "DPO_SALE", price, n, Null)>>
    /\ UNCHANGED <<nfts, loans, faucet_claims, now, pending>>

\* views.py 342-356
update_dpo_price(u, d, new_price) ==
    /\ IF ~(d \in DOMAIN dpos /\ dpos[d].owner = u)
       THEN /\ UNCHANGED dpos
       ELSE /\ dpos' = [dpos EXCEPT ![d].current_price = new_price,
                                    ![d].is_for_sale = TRUE]
    /\ UNCHANGED <<nfts, loans, balance, ledger, faucet_claims, now, pending>>

\* ------------------------------------------------- requests, one at a time
Borrow ==
    \E u \in Users, n \in Assets, a \in LoanAmounts :
        create_loan(u, n, a) /\ Unobserved

Repay ==
    \E u \in Users, l \in 1..MaxLoans, a \in RepayAmounts :
        repay_loan(u, l, a) /\ Unobserved

Faucet == \E u \in Users : hidden_faucet(u) /\ Unobserved

Liquidate ==
    \E l \in 1..MaxLoans, p \in Percentages : liquidate(l, p) /\ Unobserved

\* utils.py 246-302 called by an operator on a loan that is ACTIVE
LiquidateActive ==
    \E l \in 1..MaxLoans, p \in Percentages :
        /\ l \in DOMAIN loans
        /\ loans[l].status = "ACTIVE"
        /\ liquidate(l, p)
        /\ Unobserved

CreateDpo ==
    \E u \in Users, n \in Assets, s \in DpoShares, pr \in DpoPrices :
        create_dpo(u, n, s, pr) /\ Unobserved

BuyDpo == \E u \in Users, d \in 1..MaxDpos : buy_dpo(u, d) /\ Unobserved

UpdateDpoPrice ==
    \E u \in Users, d \in 1..MaxDpos, pr \in DpoPrices :
        update_dpo_price(u, d, pr) /\ Unobserved

\* ------------------------------------------------ two requests in flight
\* views.py 122-134: a create_loan request that has read the asset (line 127)
\* and passed the limit check, and has not yet entered the atomic block
create_loan_check(u, n, loan_amount) ==
    /\ nft_available(nfts[n], u)
    /\ ~exceeds_max_loan(nfts[n], loan_amount)
    /\ Cardinality(pending) < MaxPending
    /\ pending' = pending \cup
         {[rid |-> CHOOSE r \in 1..MaxPending : \A q \in pending : q.rid # r,
           user |-> u, nft_id |-> n, nft |-> nfts[n], loan_amount |-> loan_amount]}
    /\ UNCHANGED <<nfts, loans, balance, dpos, ledger, faucet_claims, now>>

\* views.py 137-164: the request's atomic block, run later
create_loan_write(req) ==
    /\ create_loan_commit(req.user, req.nft_id, req.nft, req.loan_amount)
    /\ pending' = pending \ {req}

BorrowCheck ==
    \E u \in Users, n \in Assets, a \in LoanAmounts :
        create_loan_check(u, n, a) /\ Unobserved

BorrowWrite == \E req \in pending : create_loan_write(req) /\ Unobserved

\* ------------------------------------------------------- observed calls
\* utils.py 220-243 called on loan l, as admin.py 60 and auto_liquidation.py
\* 36 do: the accrual's writes stay and the tier or the TypeError goes to
\* the caller
classify(l) ==
    /\ l \in DOMAIN loans
    /\ LET r == check_liquidation_risk(Db, l) IN
       /\ Len(r[1].ledger) <= MaxLedger
       /\ loans' = r[1].loans
       /\ ledger' = r[1].ledger
       /\ returned' =
            IF r[2] = TypeError
            THEN Call("check_liquidation_risk", l, Null, TypeError, Null, 0, << >>)
            ELSE Call("check_liquidation_risk", l, Null, Null, r[2], 0, << >>)
    /\ UNCHANGED <<nfts, balance, dpos, faucet_claims, now, pending, in_flight>>

\* utils.py 81-202 called on asset n, as process_all_yields does at line 212
distribute(n) ==
    /\ yield_eligible(n)
    /\ LET r == process_nft_yield(n) IN
       returned' = Call("process_nft_yield", 0, n,
                        IF r.raised THEN TypeError ELSE Null, Null,
                        r.value, << >>)
    /\ UNCHANGED <<nfts, loans, balance, dpos, ledger, faucet_claims, now,
                   pending, in_flight>>

\* utils.py 19-47 called on loan l, its caller observed
accrue(l) ==
    /\ l \in DOMAIN loans
    /\ LET r == update_loan_interest(Db, l) IN
       /\ Len(r[1].ledger) <= MaxLedger
       /\ loans' = r[1].loans
       /\ ledger' = r[1].ledger
       /\ returned' =
            IF r[2].raised
            THEN Call("update_loan_interest", l, Null, TypeError, Null, 0, << >>)
            ELSE Call("update_loan_interest", l, Null, Null, Null,
                      100 * r[2].value, << >>)
    /\ UNCHANGED <<nfts, balance, dpos, faucet_claims, now, pending, in_flight>>

\* "again" when the caller's previous call, with no request and no tick of
\* the clock since, was the same batch stage and it completed
rerun(op) ==
    IF returned.op = op /\ returned.error = Null THEN "again" ELSE Null

\* utils.py 54-60: total_interest, the interest the loop added to the debts
RECURSIVE total_interest(_, _, _)
total_interest(before, after, i) ==
    IF i > Len(before) THEN 0
    ELSE after[i].current_debt - before[i].current_debt
         + total_interest(before, after, i + 1)

\* utils.py 49-60, its caller observed
accrue_all ==
    LET r == update_loans_from(Db, loans, 1) IN
    /\ Len(r[1].ledger) <= MaxLedger
    /\ loans' = r[1].loans
    /\ ledger' = r[1].ledger
    /\ returned' =
         IF r[2] = TypeError
         THEN Call("update_all_loans", 0, Null, TypeError,
                   rerun("update_all_loans"), 0, << >>)
         ELSE Call("update_all_loans", 0, Null, Null, rerun("update_all_loans"),
                   100 * total_interest(loans, r[1].loans, 1), << >>)
    /\ UNCHANGED <<nfts, balance, dpos, faucet_claims, now, pending, in_flight>>

\* utils.py 204-215, its caller observed
distribute_all ==
    /\ returned' =
         IF process_all_yields_result.raised
         THEN Call("process_all_yields", 0, Null, TypeError,
                   rerun("process_all_yields"), 0, << >>)
         ELSE Call("process_all_yields", 0, Null, Null,
                   rerun("process_all_yields"),
                   100 * process_all_yields_result.value, << >>)
    /\ UNCHANGED <<nfts, loans, balance, dpos, ledger, faucet_claims, now,
                   pending, in_flight>>

\* ------------------------------------------------- management commands
\* One entry of the record of the routines a command called, in call order:
\* type names the routine and loan its argument (0 if it has none)
Stage(name, l) == [loan |-> l, amount |-> 0, type |-> name]

\* utils.py 311-320 and auto_liquidation.py 35-69 from loan i on: the calls
\* made for the loans of the queryset snap, in order.  The accrual is the
\* first statement of check_liquidation_risk (utils.py 224); a TypeError
\* ends the loop; with dry_run no loan is liquidated.
RECURSIVE loop_stages(_, _, _, _)
loop_stages(db, snap, i, dry_run) ==
    IF i > Len(snap) THEN << >>
    ELSE IF snap[i].status # "ACTIVE" THEN loop_stages(db, snap, i + 1, dry_run)
    ELSE LET r == check_liquidation_risk(db, i) IN
         <<Stage("update_loan_interest", i)>>
         \o (IF r[2] = TypeError THEN << >>
             ELSE IF r[2] = "LIQUIDATION" /\ ~dry_run
             THEN <<Stage("liquidate_loan", i)>>
                  \o loop_stages(liquidate_loan(r[1], i, 100), snap, i + 1, dry_run)
             ELSE loop_stages(r[1], snap, i + 1, dry_run))

\* auto_liquidation.py 35-69 with dry_run, from loan i on: every loan is
\* classified and none is liquidated
RECURSIVE classify_from(_, _, _)
classify_from(db, snap, i) ==
    IF i > Len(snap) THEN <<db, "ok">>
    ELSE IF snap[i].status # "ACTIVE" THEN classify_from(db, snap, i + 1)
    ELSE LET r == check_liquidation_risk(db, i)
         IN  IF r[2] = TypeError THEN <<r[1], TypeError>>
             ELSE classify_from(r[1], snap, i + 1)

\* process_yields.py 19-81 without --dry-run: process_all_yields (line 31),
\* then check_all_liquidations (line 48); an exception is reported and raised
\* again (lines 73-77).  The SystemSettings row of lines 34-43 is not part
\* of the state.
process_yields ==
    /\ IF process_all_yields_result.raised
       THEN /\ returned' = Call("process_yields", 0, Null, TypeError, Null, 0,
                                <<Stage("process_all_yields", 0)>>)
            /\ UNCHANGED <<nfts, loans, dpos, ledger>>
       ELSE LET r == check_liquidations_from(Db, loans, 1) IN
            /\ Len(r[1].ledger) <= MaxLedger
            /\ loans' = r[1].loans
            /\ nfts' = r[1].nfts
            /\ dpos' = r[1].dpos
            /\ ledger' = r[1].ledger
            /\ returned' =
                 Call("process_yields", 0, Null,
                      IF r[2] = TypeError THEN TypeError ELSE Null, Null,
                      100 * process_all_yields_result.value,
                      <<Stage("process_all_yields", 0),
                        Stage("check_all_liquidations", 0)>>
                      \o loop_stages(Db, loans, 1, FALSE))
    /\ UNCHANGED <<balance, faucet_claims, now, pending, in_flight>>

\* auto_liquidation.py 18-81: update_all_loans (line 26), then the loop over
\* the ACTIVE loans (lines 31-69), which classifies each loan outside any
\* try and liquidates inside one
auto_liquidation(dry_run) ==
    LET a == update_loans_from(Db, loans, 1) IN
    /\ IF a[2] = TypeError
       THEN /\ Len(a[1].ledger) <= MaxLedger
            /\ loans' = a[1].loans
            /\ ledger' = a[1].ledger
            /\ UNCHANGED <<nfts, dpos>>
            /\ returned' = Call("auto_liquidation", 0, Null, TypeError, Null, 0,
                                <<Stage("update_all_loans", 0)>>)
       ELSE LET r == IF dry_run
                     THEN classify_from(a[1], a[1].loans, 1)
                     ELSE check_liquidations_from(a[1], a[1].loans, 1)
            IN  /\ Len(r[1].ledger) <= MaxLedger
                /\ loans' = r[1].loans
                /\ nfts' = r[1].nfts
                /\ dpos' = r[1].dpos
                /\ ledger' = r[1].ledger
                /\ returned' =
                     Call("auto_liquidation", 0, Null,
                          IF r[2] = TypeError THEN TypeError ELSE Null, Null, 0,
                          <<Stage("update_all_loans", 0)>>
                          \o loop_stages(a[1], a[1].loans, 1, dry_run))
    /\ UNCHANGED <<balance, faucet_claims, now, pending, in_flight>>

\* utils.py 255-300: the number of rows the atomic block writes (loan.save,
\* nft.save, DPOToken.objects.create in the partial branch only,
\* Transaction.objects.create)
write_count(p) == IF p = 100 THEN 3 ELSE 4

\* utils.py 255-300: the rows inside the atomic block once its first k
\* writes are done; each write goes to a table of its own
writes_done(db, l, p, k) ==
    LET done == liquidate_loan(db, l, p) IN
    [loans |-> IF k >= 1 THEN done.loans ELSE db.loans,
     nfts |-> IF k >= 2 THEN done.nfts ELSE db.nfts,
     dpos |-> IF k >= 3 THEN done.dpos ELSE db.dpos,
     ledger |-> IF k >= write_count(p) THEN done.ledger ELSE db.ledger]

\* atomic with the writes before the failure left in place
atomic_no_rollback(before, inside, failed) == inside

\* utils.py 255, with transaction.atomic(): an exception that leaves the
\* block rolls back every write made inside it
atomic(before, inside, failed) == IF failed THEN before ELSE inside

\* liquidation_balances with the cleared debt taken back from the borrower
liquidation_balances_debited(bal, borrower, liquidation_amount) ==
    [bal EXCEPT ![borrower] = @ - liquidation_amount]

\* utils.py 246-302: the UserProfile rows after one liquidation.  The routine
\* loads and saves the loan, the asset, a DPOToken and a Transaction; it
\* reads loan.borrower only to fill the owner and user columns, and no
\* UserProfile is saved.
liquidation_balances(bal, borrower, liquidation_amount) == bal

\* the UserProfile rows after the liquidations that wrote the ledger rows
\* entries[i..]
RECURSIVE balances_after(_, _, _)
balances_after(bal, entries, i) ==
    IF i > Len(entries) THEN bal
    ELSE balances_after(liquidation_balances(bal, entries[i].user,
                                             entries[i].amount),
                        entries, i + 1)

\* utils.py 246-302 called on loan l with percentage p, its caller observed;
\* write number fail_at of the atomic block raises (0, or a number past the
\* last write: none does)
liquidate_call(l, p, fail_at) ==
    /\ l \in DOMAIN loans
    /\ IF invalid_percentage(p)
       THEN /\ UNCHANGED <<nfts, loans, dpos, ledger>>
            /\ returned' = Call("liquidate_loan", l, Null, "ValueError", Null, 0, << >>)
       ELSE LET failed == fail_at \in 1..write_count(p)
                k == IF failed THEN fail_at - 1 ELSE write_count(p)
                db == atomic(Db, writes_done(Db, l, p, k), failed)
            IN  /\ Len(db.ledger) <= MaxLedger
                /\ Len(db.dpos) <= MaxDpos
                /\ loans' = db.loans
                /\ nfts' = db.nfts
                /\ dpos' = db.dpos
                /\ ledger' = db.ledger
                /\ returned' =
                     IF failed
                     THEN Call("liquidate_loan", l, Null, "DatabaseError", Null, 0, << >>)
                     ELSE Call("liquidate_loan", l, Null, Null, Null,
                               loans[l].current_debt * p, << >>)
    /\ balance' = balances_after(balance,
                                 SubSeq(ledger', Len(ledger) + 1, Len(ledger')), 1)
    /\ UNCHANGED <<faucet_claims, now, pending, in_flight>>

\* utils.py 316-320: the entries the sweep appended to its list, one per
\* liquidate_loan call, read off the ledger rows those calls wrote
RECURSIVE liquidations(_, _)
liquidations(entries, i) ==
    IF i > Len(entries) THEN << >>
    ELSE <<[loan |-> entries[i].related_loan,
            amount |-> entries[i].amount * 100, type |-> "FULL"]>>
         \o liquidations(entries, i + 1)

\* utils.py 304-322, its caller observed
sweep_call ==
    LET r == check_liquidations_from(Db, loans, 1) IN
    /\ Len(r[1].ledger) <= MaxLedger
    /\ loans' = r[1].loans
    /\ nfts' = r[1].nfts
    /\ dpos' = r[1].dpos
    /\ ledger' = r[1].ledger
    /\ returned' =
         IF r[2] = TypeError
         THEN Call("check_all_liquidations", 0, Null, TypeError, Null, 0, << >>)
         ELSE Call("check_all_liquidations", 0, Null, Null, Null, 0,
                   liquidations(SubSeq(r[1].ledger, Len(ledger) + 1,
                                       Len(r[1].ledger)), 1))
    /\ balance' = balances_after(balance,
                                 SubSeq(r[1].ledger, Len(ledger) + 1,
                                        Len(r[1].ledger)), 1)
    /\ UNCHANGED <<faucet_claims, now, pending, in_flight>>

BorrowOps ==
    \E u \in Users, n \in Assets, a \in OpsAmounts :
        create_loan(u, n, a) /\ Discarded

BorrowForLiquidation ==
    \E u \in Users, n \in Assets, a \in LiquidationAmounts :
        create_loan(u, n, a) /\ Discarded

Classify == \E l \in 1..MaxLoans : classify(l)

Distribute == \E n \in Assets : distribute(n)

Accrue == \E l \in 1..MaxLoans : accrue(l)

AutoLiquidation == \E dry_run \in BOOLEAN : auto_liquidation(dry_run)

LiquidateCall ==
    \E l \in 1..MaxLoans, p \in Percentages, f \in FailPoints :
        liquidate_call(l, p, f)

ClockOps == Tick /\ Discarded

\* ------------------------------------------------- requests that overlap
\* Each request runs on its own database connection and holds the rows it
\* read as in-memory copies; no handler locks a row (there is no
\* select_for_update) and Model.save() writes every field of the copy.
\* A request that has read and not yet written: seen is the loans table as
\* it read it, balance the caller's vbtc_balance as it read it.
Request(op, user, loan, amount) ==
    [rid |-> CHOOSE r \in 1..MaxPending : \A q \in in_flight : q.rid # r,
     op |-> op, user |-> user, loan |-> loan, amount |-> amount,
     seen |-> loans, balance |-> IF user = Null THEN 0 ELSE balance[user]]

\* views.py 366-375: a repay_loan request that has read the loan (366) and
\* the profile (367), passed the amount check (369) and the balance check
\* (373), and has not yet entered the atomic block.  A request that fails a
\* check writes nothing and is over.
repay_loan_read(u, l, repay_amount) ==
    /\ loan_repayable(l, u)
    /\ ~invalid_repay_amount(repay_amount, loans[l].current_debt)
    /\ balance[u] >= repay_amount
    /\ Cardinality(in_flight) < MaxPending
    /\ in_flight' = in_flight \cup {Request("repay_loan", u, l, repay_amount)}
    /\ UNCHANGED <<nfts, loans, balance, dpos, ledger, faucet_claims, now,
                   pending, returned>>

\* views.py 377-403: the request's atomic block, run later.  profile.save()
\* and loan.save() write the copies of lines 366-367; loan.nft_collateral is
\* first read at line 390.
repay_loan_write(req) ==
    LET l == req.loan
        loan == req.seen[l]
        debt == loan.current_debt - req.amount
        n == loan.nft_collateral
    IN  /\ req.op = "repay_loan"
        /\ Len(ledger) < MaxLedger
        /\ balance' = [balance EXCEPT ![req.user] = req.balance - req.amount]
        /\ IF fully_repaid(debt)
           THEN /\ loans' = [loans EXCEPT ![l] = [loan EXCEPT !.current_debt = 0,
                                                               !.status = "REPAID"]]
                /\ nfts' = release_collateral(nfts, n)
           ELSE /\ loans' = [loans EXCEPT ![l] = [loan EXCEPT !.current_debt = debt]]
                /\ nfts' = nfts
        /\ ledger' = Append(ledger, Txn(req.user, "LOAN_REPAY", req.amount, n, l))
        /\ in_flight' = in_flight \ {req}
        /\ UNCHANGED <<dpos, faucet_claims, now, pending, returned>>

\* utils.py 308-310: the sweep has evaluated its queryset of ACTIVE loans
\* and not yet run the loop body.  With no ACTIVE loan the loop is empty.
check_all_liquidations_read ==
    /\ \E l \in DOMAIN loans : loans[l].status = "ACTIVE"
    /\ Cardinality(in_flight) < MaxPending
    /\ in_flight' = in_flight \cup {Request("check_all_liquidations", Null, 0, 0)}
    /\ UNCHANGED <<nfts, loans, balance, dpos, ledger, faucet_claims, now,
                   pending, returned>>

\* loans with the rows of the queryset snap in place of the current ones
RECURSIVE as_read(_, _, _)
as_read(ls, snap, i) ==
    IF i > Len(snap) THEN ls
    ELSE as_read(IF snap[i].status = "ACTIVE" THEN [ls EXCEPT ![i] = snap[i]] ELSE ls,
                 snap, i + 1)

\* loans with the rows that loan.save() wrote (those that differ from the
\* copy the loop started from) in place of the current ones
RECURSIVE saved_rows(_, _, _, _)
saved_rows(ls, before, after, i) ==
    IF i > Len(before) THEN ls
    ELSE saved_rows(IF after[i] # before[i] THEN [ls EXCEPT ![i] = after[i]] ELSE ls,
                    before, after, i + 1)

\* utils.py 310-322: the loop of the sweep, run later over the loans of its
\* queryset.  Each loan is the copy of line 308; loan.nft_collateral is first
\* read in the loop (utils.py 227) and liquidate_loan saves both.
check_all_liquidations_write(req) ==
    LET copies == as_read(loans, req.seen, 1)
        r == check_liquidations_from([Db EXCEPT !.loans = copies], req.seen, 1)
    IN  /\ req.op = "check_all_liquidations"
        /\ Len(r[1].ledger) <= MaxLedger
        /\ loans' = saved_rows(loans, copies, r[1].loans, 1)
        /\ nfts' = r[1].nfts
        /\ dpos' = r[1].dpos
        /\ ledger' = r[1].ledger
        /\ in_flight' = in_flight \ {req}
        /\ UNCHANGED <<balance, faucet_claims, now, pending, returned>>

BorrowForRepay ==
    \E u \in Users, n \in Assets, a \in RaceLoanAmounts :
        create_loan(u, n, a) /\ Unobserved

RepayRead ==
    \E u \in Users, l \in 1..MaxLoans, a \in RaceRepayAmounts :
        repay_loan_read(u, l, a)

RepayWrite == \E req \in in_flight : repay_loan_write(req)

SweepRead == check_all_liquidations_read

SweepWrite == \E req \in in_flight : check_all_liquidations_write(req)

\* The management commands and the clock, their callers not observed
AccrueAll == update_all_loans /\ Unobserved

Sweep == check_all_liquidations /\ Unobserved

UpdateValuations == update_all_valuations /\ Unobserved

Clock == Tick /\ Unobserved

\* ---------------------------------------------------------- specifications
\* The lending engine, every handler run to completion before the next
Next ==
    \/ Borrow
    \/ Repay
    \/ Liquidate
    \/ AccrueAll
    \/ process_all_yields
    \/ Sweep
    \/ UpdateValuations
    \/ Clock

Spec == Init /\ [][Next]_vars

\* Lending with the faucet and the fractional-token market
NextMarket ==
    \/ Borrow
    \/ Repay
    \/ Liquidate
    \/ process_all_yields
    \/ Faucet
    \/ CreateDpo
    \/ BuyDpo
    \/ UpdateDpoPrice

\* Accounts may hold funds from before (UserProfile.vbtc_balance is set when
\* the profile is created)
InitMarket ==
    /\ InitNfts
    /\ loans = << >>
    /\ balance \in [Users -> InitBalances]
    /\ dpos = << >>
    /\ ledger = << >>
    /\ faucet_claims = {}
    /\ now = 0
    /\ pending = {}
    /\ returned = NoCall
    /\ in_flight = {}

SpecMarket == InitMarket /\ [][NextMarket]_vars

\* Borrow requests whose check and write are separate steps
NextRace ==
    \/ BorrowCheck
    \/ BorrowWrite
    \/ Repay

SpecRace == Init /\ [][NextRace]_vars

\* The routines of utils.py called one at a time, each caller seeing what
\* its call returned or raised
InitOps ==
    /\ \E iv \in OpsValues :
         nfts = [n \in Assets |->
                   [owner |-> InitOwner[n], estimated_value |-> iv,
                    status |-> "DEPOSITED", ownership_percentage |-> FullOwnership,
                    deposit_date |-> 0, last_yield_date |-> Null]]
    /\ loans = << >>
    /\ balance = [u \in Users |-> 0]
    /\ dpos = << >>
    /\ ledger = << >>
    /\ faucet_claims = {}
    /\ now = 0
    /\ pending = {}
    /\ returned = NoCall
    /\ in_flight = {}

NextOps ==
    \/ BorrowOps
    \/ Classify
    \/ Distribute
    \/ sweep_call
    \/ ClockOps

SpecOps == InitOps /\ [][NextOps]_vars

\* Loans taken and then liquidated, by direct calls and by the sweep
NextLiquidation ==
    \/ BorrowForLiquidation
    \/ LiquidateCall
    \/ sweep_call

SpecLiquidation == InitOps /\ [][NextLiquidation]_vars

\* The batch stages and the accrual of one loan, run one after another
NextCycle ==
    \/ BorrowForLiquidation
    \/ Accrue
    \/ accrue_all
    \/ distribute_all
    \/ process_yields
    \/ AutoLiquidation
    \/ ClockOps

SpecCycle == InitOps /\ [][NextCycle]_vars

\* The lending engine with liquidation called on Active loans only and the
\* asset values left as deposited
NextLifecycle ==
    \/ Borrow
    \/ Repay
    \/ LiquidateActive
    \/ AccrueAll
    \/ process_all_yields
    \/ Sweep
    \/ Clock

SpecLifecycle == Init /\ [][NextLifecycle]_vars

\* Repayments and sweeps whose reads and writes are separate steps
NextConcurrent ==
    \/ BorrowForRepay
    \/ RepayRead
    \/ RepayWrite
    \/ SweepRead
    \/ SweepWrite

SpecConcurrent == InitOps /\ [][NextConcurrent]_vars

\* ------------------------------------------------------------------ claims
\* A step that writes a row a request handler can write
RowsChange == loans' # loans \/ nfts' # nfts \/ balance' # balance \/ ledger' # ledger

CollateralOf(i) == nfts[loans[i].nft_collateral]

\* A step in which the named routine handed a result to its caller
Called(op) == returned'.op = op

IsTerminal(status) == status \in {"REPAID", "LIQUIDATED", "DEFAULTED"}

\* C1: every Active loan's stored ltv_ratio equals current_debt /
\* estimated_value * 100, up to the rounding of the two stored fields
\* (half a hundredth of a percent for ltv_ratio, half of 1e-8 for the debt).
C1_LtvMatchesDebt ==
    \A i \in DOMAIN loans :
        loans[i].status = "ACTIVE" =>
            2 * Abs(loans[i].ltv_ratio * CollateralOf(i).estimated_value
                    - 10000 * loans[i].current_debt)
              <= CollateralOf(i).estimated_value + 10000

\* C2: once a loan is Repaid, Liquidated or Defaulted, no step changes its
\* status.
C2_TerminalIsFinal ==
    [][\A i \in DOMAIN loans :
         IsTerminal(loans[i].status) => loans'[i].status = loans[i].status]_vars

\* C3: a liquidate call on a loan that is already Liquidated changes neither
\* the loans, the assets, the fractional tokens nor the ledger.
C3_LiquidatedIsRejected ==
    [][\A l \in DOMAIN loans, p \in Percentages :
         (loans[l].status = "LIQUIDATED" /\ liquidate(l, p))
             => UNCHANGED <<loans, nfts, dpos, ledger>>]_vars

\* C4: for every asset, the ownership_percentage of its fractional tokens
\* plus the asset's retained ownership_percentage never exceeds 100.
C4_OwnershipAtMost100 ==
    \A n \in Assets :
        SumDpo(dpos, n, 1) + nfts[n].ownership_percentage <= FullOwnership

\* C5: every Active loan has current_debt >= 0, whatever amount was borrowed.
C5_DebtNonNegative ==
    \A i \in DOMAIN loans : loans[i].status = "ACTIVE" => loans[i].current_debt >= 0

\* C6: no user's balance is ever negative.
C6_BalanceNonNegative == \A u \in Users : balance[u] >= 0

\* C7: each asset backs at most one Active loan, also when two borrow
\* requests interleave their check and their write.
C7_OneActiveLoanPerAsset ==
    \A n \in Assets : Cardinality(ActiveLoansOf(loans, n)) <= 1

\* C8: a borrow creates a loan only for an asset the caller owns, in status
\* Deposited, with loan_amount <= estimated_value * max_ltv_ratio / 100; the
\* loan is then Active with principal_amount = current_debt = loan_amount, the
\* asset is Collateralized and the borrower's balance grows by loan_amount;
\* otherwise no loan is created and loans, assets, balances and ledger stay
\* as they were.  (A step that changes none of these rows meets the claim as
\* it stands, so only the other steps are examined.)
C8_BorrowContract ==
    [][RowsChange => \A u \in Users, n \in Assets, a \in LoanAmounts :
         create_loan(u, n, a) =>
            LET allowed == /\ nfts[n].owner = u
                           /\ nfts[n].status = "DEPOSITED"
                           /\ a * 10000 <= nfts[n].estimated_value * max_ltv_ratio
                created == Len(loans') > Len(loans)
            IN  /\ created =>
                     /\ allowed
                     /\ Len(loans') = Len(loans) + 1
                     /\ \A i \in DOMAIN loans : loans'[i] = loans[i]
                     /\ loans'[Len(loans')].status = "ACTIVE"
                     /\ loans'[Len(loans')].borrower = u
                     /\ loans'[Len(loans')].nft_collateral = n
                     /\ loans'[Len(loans')].principal_amount = a
                     /\ loans'[Len(loans')].current_debt = a
                     /\ nfts'[n].status = "COLLATERALIZED"
                     /\ balance' = [balance EXCEPT ![u] = @ + a]
                /\ ~created => UNCHANGED <<loans, nfts, balance, ledger>>
                /\ ~allowed => UNCHANGED <<loans, nfts, balance, ledger>>]_vars

\* C8 witness: a borrow of the largest allowed amount has been accepted
C8_Witness ==
    \E i \in DOMAIN loans :
        /\ loans[i].status = "ACTIVE"
        /\ loans[i].principal_amount = 7
        /\ loans[i].current_debt = 7
        /\ CollateralOf(i).status = "COLLATERALIZED"
        /\ CollateralOf(i).estimated_value = 10
        /\ balance[loans[i].borrower] = 7
        /\ ledger[Len(ledger)] =
             Txn(loans[i].borrower, "LOAN_CREATE", 7, loans[i].nft_collateral, i)

AtOrOverLimit(l) ==
    loans[l].current_debt * 10000 >= max_ltv_ratio * CollateralOf(l).estimated_value

\* The debts of the loans secured on asset n, summed
RECURSIVE DebtOn(_, _, _)
DebtOn(ls, n, i) ==
    IF i > Len(ls) THEN 0
    ELSE (IF ls[i].nft_collateral = n THEN ls[i].current_debt ELSE 0)
         + DebtOn(ls, n, i + 1)

\* C11: a distribute(asset) that completes leaves no Active loan on the asset
\* with current_debt below 0, and what it credits to the owner's balance plus
\* what it takes off the debt equals the yield it computed and returned.
C11_DistributeConserves ==
    [][Called("process_nft_yield") =>
       \A n \in Assets :
         (distribute(n) /\ returned'.error = Null) =>
            /\ \A l \in DOMAIN loans' :
                  (loans'[l].nft_collateral = n /\ loans'[l].status = "ACTIVE")
                      => loans'[l].current_debt >= 0
            /\ 100 * (balance'[nfts[n].owner] - balance[nfts[n].owner])
                 + 100 * (DebtOn(loans, n, 1) - DebtOn(loans', n, 1))
               = returned'.amount]_vars

\* C12: a distribute on a Collateralized asset whose Active loan has a debt
\* above 0 and at most the yield due leaves the loan Repaid with current_debt
\* 0 and the asset Deposited, and credits the owner with the yield less the
\* debt (to the 8 decimal places of the balance).
C12_YieldRepaysLoan ==
    [][Called("process_nft_yield") =>
       \A n \in Assets, l \in DOMAIN loans :
         (/\ distribute(n)
          /\ nfts[n].status = "COLLATERALIZED"
          /\ loans[l].nft_collateral = n
          /\ loans[l].status = "ACTIVE"
          /\ loans[l].current_debt > 0
          /\ days_since_yield(n) >= MinYieldDays
          /\ yield_num(nfts[n], days_since_yield(n)) \div yield_den
               >= loans[l].current_debt)
            => /\ loans'[l].status = "REPAID"
               /\ loans'[l].current_debt = 0
               /\ nfts'[n].status = "DEPOSITED"
               /\ balance'[nfts[n].owner] - balance[nfts[n].owner]
                    = RoundHalfEven(yield_num(nfts[n], days_since_yield(n))
                                      - loans[l].current_debt * yield_den,
                                    yield_den)]_vars

\* The tier the classification is to return for a debt against a value:
\* LIQUIDATION from max_ltv, DANGER from 0.95 * max_ltv, WARNING from
\* 0.80 * max_ltv, SAFE below
ClaimedTier(current_debt, value) ==
    IF current_debt * 10000 >= max_ltv_ratio * value THEN "LIQUIDATION"
    ELSE IF current_debt * 10000 * 20 >= 19 * max_ltv_ratio * value THEN "DANGER"
    ELSE IF current_debt * 10000 * 5 >= 4 * max_ltv_ratio * value THEN "WARNING"
    ELSE "SAFE"

\* C13: the risk classification of a loan returns LIQUIDATION, DANGER,
\* WARNING or SAFE by the loan-to-value bands of max_ltv; at max_ltv 70 the
\* ratios 56.0, 66.5 and 70.0 give WARNING, DANGER and LIQUIDATION.
C13_RiskTiers ==
    returned.op = "check_liquidation_risk" =>
        /\ returned.error = Null
        /\ returned.tier =
             ClaimedTier(loans[returned.loan].current_debt,
                         CollateralOf(returned.loan).estimated_value)

\* The ledger rows a step appended that name loan l
NewEntriesFor(l) ==
    {i \in (Len(ledger) + 1)..Len(ledger') : ledger'[i].related_loan = l}

\* Loan l and its asset as a full liquidation is to leave them, with one
\* FULL_LIQUIDATION ledger row for the debt the loan had and no token minted
FullyLiquidated(l) ==
    LET n == loans[l].nft_collateral IN
    /\ loans'[l].status = "LIQUIDATED"
    /\ loans'[l].current_debt = 0
    /\ nfts'[n].status = "LIQUIDATED"
    /\ nfts'[n].ownership_percentage = 0
    /\ Cardinality(NewEntriesFor(l)) = 1
    /\ \A i \in NewEntriesFor(l) :
          ledger'[i] = Txn(loans[l].borrower, "FULL_LIQUIDATION",
                           loans[l].current_debt, n, l)
    /\ dpos' = dpos

\* C14: a full liquidation (percentage 100) of an Active loan, called
\* directly or by the sweep, leaves the loan Liquidated with current_debt 0
\* and the asset Liquidated with ownership_percentage 0, appends exactly one
\* FULL_LIQUIDATION ledger entry for the debt the loan had just before, and
\* mints no fractional token.
C14_FullLiquidation ==
    [][/\ Called("liquidate_loan") =>
            \A l \in DOMAIN loans, f \in FailPoints :
                (/\ loans[l].status = "ACTIVE"
                 /\ liquidate_call(l, 100, f)
                 /\ returned'.error = Null)
                    => FullyLiquidated(l) /\ Len(ledger') = Len(ledger) + 1
       /\ (Called("check_all_liquidations") /\ sweep_call) =>
            \A l \in DOMAIN loans :
                (loans[l].status = "ACTIVE" /\ loans'[l] # loans[l])
                    => FullyLiquidated(l)]_vars

\* C14 witness: a loan of 1400 has been liquidated in full by a direct call
C14_Witness ==
    /\ returned.op = "liquidate_loan"
    /\ returned.error = Null
    /\ returned.amount = 1400 * 100
    /\ loans[returned.loan].status = "LIQUIDATED"
    /\ loans[returned.loan].current_debt = 0
    /\ CollateralOf(returned.loan).status = "LIQUIDATED"
    /\ CollateralOf(returned.loan).ownership_percentage = 0
    /\ ledger[Len(ledger)] =
         Txn(loans[returned.loan].borrower, "FULL_LIQUIDATION", 1400,
             loans[returned.loan].nft_collateral, returned.loan)
    /\ dpos = << >>

\* stored is exact / 100 rounded to a whole number of the field's last place
RoundedFrom(stored, exact) == 2 * Abs(100 * stored - exact) <= 100

\* C15, to the decimal places of the stored fields: a partial liquidation
\* with percentage p in [1, 100) of an Active loan leaves current_debt at
\* current_debt * (100 - p) / 100 and the asset's ownership_percentage at
\* ownership_percentage * (100 - p) / 100, each rounded to its field, sets
\* the asset to PartiallyLiquidated, leaves the loan Active, and mints
\* exactly one token, owned by the borrower, whose ownership_percentage is
\* ownership_percentage * p / 100 and whose purchase_price is
\* current_debt * p / 100, each rounded to its field.
C15_PartialLiquidationRounded ==
    [][Called("liquidate_loan") =>
       \A l \in DOMAIN loans, p \in Percentages, f \in FailPoints :
         (/\ loans[l].status = "ACTIVE"
          /\ 1 <= p /\ p < 100
          /\ liquidate_call(l, p, f)
          /\ returned'.error = Null)
            => LET n == loans[l].nft_collateral
                   token == dpos'[Len(dpos')]
               IN  /\ RoundedFrom(loans'[l].current_debt,
                                  loans[l].current_debt * (100 - p))
                   /\ RoundedFrom(nfts'[n].ownership_percentage,
                                  nfts[n].ownership_percentage * (100 - p))
                   /\ nfts'[n].status = "PARTIAL_LIQUIDATED"
                   /\ loans'[l].status = "ACTIVE"
                   /\ Len(dpos') = Len(dpos) + 1
                   /\ \A i \in DOMAIN dpos : dpos'[i] = dpos[i]
                   /\ token.original_nft = n
                   /\ token.owner = loans[l].borrower
                   /\ RoundedFrom(token.ownership_percentage,
                                  nfts[n].ownership_percentage * p)
                   /\ RoundedFrom(token.purchase_price,
                                  loans[l].current_debt * p)]_vars

\* C15 as stated: the stored current_debt falls by exactly
\* current_debt * p / 100 and the stored ownership_percentage by exactly
\* ownership_percentage * p / 100, and the token's ownership_percentage and
\* purchase_price equal those two reductions.
C15_PartialLiquidationExact ==
    [][Called("liquidate_loan") =>
       \A l \in DOMAIN loans, p \in Percentages, f \in FailPoints :
         (/\ loans[l].status = "ACTIVE"
          /\ 1 <= p /\ p < 100
          /\ liquidate_call(l, p, f)
          /\ returned'.error = Null)
            => LET n == loans[l].nft_collateral
                   token == dpos'[Len(dpos')]
               IN  /\ 100 * (loans[l].current_debt - loans'[l].current_debt)
                        = loans[l].current_debt * p
                   /\ 100 * (nfts[n].ownership_percentage
                               - nfts'[n].ownership_percentage)
                        = nfts[n].ownership_percentage * p
                   /\ nfts'[n].status = "PARTIAL_LIQUIDATED"
                   /\ loans'[l].status = "ACTIVE"
                   /\ Len(dpos') = Len(dpos) + 1
                   /\ token.owner = loans[l].borrower
                   /\ token.ownership_percentage
                        = nfts[n].ownership_percentage
                            - nfts'[n].ownership_percentage
                   /\ token.purchase_price
                        = loans[l].current_debt - loans'[l].current_debt]_vars

\* C15 witness: half of a loan of 1400 has been liquidated
C15_Witness ==
    /\ returned.op = "liquidate_loan"
    /\ returned.error = Null
    /\ returned.amount = 1400 * 50
    /\ loans[returned.loan].status = "ACTIVE"
    /\ loans[returned.loan].current_debt = 700
    /\ CollateralOf(returned.loan).status = "PARTIAL_LIQUIDATED"
    /\ CollateralOf(returned.loan).ownership_percentage = 5000
    /\ Len(dpos) = 1
    /\ dpos[1].owner = loans[returned.loan].borrower
    /\ dpos[1].ownership_percentage = 5000
    /\ dpos[1].purchase_price = 700

\* C16: a liquidate call is all or nothing: either it raised and loans,
\* assets, tokens and ledger are as before, or it returned and the loan
\* update, the asset update, the token of a partial liquidation and the
\* ledger entry are all in place.
C16_LiquidateAllOrNothing ==
    [][Called("liquidate_loan") =>
       \A l \in DOMAIN loans, p \in Percentages, f \in FailPoints :
         liquidate_call(l, p, f) =>
            LET n == loans[l].nft_collateral IN
            \/ /\ returned'.error # Null
               /\ UNCHANGED <<loans, nfts, dpos, ledger>>
            \/ /\ returned'.error = Null
               /\ Len(ledger') = Len(ledger) + 1
               /\ ledger'[Len(ledger')].related_loan = l
               /\ IF p = 100
                  THEN /\ ledger'[Len(ledger')].transaction_type = "FULL_LIQUIDATION"
                       /\ loans'[l].status = "LIQUIDATED"
                       /\ nfts'[n].status = "LIQUIDATED"
                       /\ dpos' = dpos
                  ELSE /\ ledger'[Len(ledger')].transaction_type = "PARTIAL_LIQUIDATION"
                       /\ RoundedFrom(loans'[l].current_debt,
                                      loans[l].current_debt * (100 - p))
                       /\ nfts'[n].status = "PARTIAL_LIQUIDATED"
                       /\ Len(dpos') = Len(dpos) + 1
                       /\ dpos'[Len(dpos')].original_nft = n]_vars

\* C16 witness: a liquidation of an Active loan of 1400 failed at one of its
\* writes and the loan, its asset, the tokens and the ledger show none of it
C16_Witness ==
    /\ returned.op = "liquidate_loan"
    /\ returned.error = "DatabaseError"
    /\ loans[returned.loan].status = "ACTIVE"
    /\ loans[returned.loan].current_debt = 1400
    /\ CollateralOf(returned.loan).status = "COLLATERALIZED"
    /\ CollateralOf(returned.loan).ownership_percentage = FullOwnership
    /\ dpos = << >>
    /\ Len(ledger) = Len(loans)

\* C17: a liquidate call with a percentage below 1 or above 100 raises and
\* leaves loans, assets, tokens and ledger unchanged.
C17_InvalidPercentageRejected ==
    [][Called("liquidate_loan") =>
       \A l \in DOMAIN loans, p \in Percentages, f \in FailPoints :
         (liquidate_call(l, p, f) /\ (p < 1 \/ p > 100))
            => /\ returned'.error = "ValueError"
               /\ UNCHANGED <<loans, nfts, dpos, ledger>>]_vars

\* C17 witness: a liquidation of an Active loan of 1400 was refused for its
\* percentage
C17_Witness ==
    /\ returned.op = "liquidate_loan"
    /\ returned.error = "ValueError"
    /\ loans[returned.loan].status = "ACTIVE"
    /\ loans[returned.loan].current_debt = 1400
    /\ CollateralOf(returned.loan).status = "COLLATERALIZED"
    /\ dpos = << >>
    /\ Len(ledger) = Len(loans)

\* C18: after a sweep no loan that was Active at or over max_ltv is still
\* Active: it is Liquidated with current_debt 0; every other Active loan and
\* its asset are as before (where no accrual is due); and a list the sweep
\* returns has one entry per liquidated loan, with the debt that was cleared.
C18_SweepLiquidatesExactly ==
    [][(Called("check_all_liquidations") /\ sweep_call) =>
         /\ \A l \in DOMAIN loans :
              loans[l].status = "ACTIVE" =>
                 IF AtOrOverLimit(l)
                 THEN /\ loans'[l].status = "LIQUIDATED"
                      /\ loans'[l].current_debt = 0
                 ELSE now - loans[l].last_interest_update < MinAccrualDays
                         => /\ loans'[l] = loans[l]
                            /\ nfts'[loans[l].nft_collateral]
                                 = nfts[loans[l].nft_collateral]
         /\ returned'.error = Null =>
              /\ Len(returned'.list)
                   = Cardinality({l \in DOMAIN loans :
                                    loans[l].status = "ACTIVE" /\ AtOrOverLimit(l)})
              /\ \A i \in DOMAIN returned'.list :
                    returned'.list[i].amount
                      = 100 * loans[returned'.list[i].loan].current_debt]_vars

\* C19: the reads and writes of a repayment and of a sweep never interleave
\* on the same loan.  A sweep that writes a loan row read that row as it is
\* in the database at the moment of the write, so that a loan repaid in the
\* meantime is not marked Liquidated and no repayment is lost; and a
\* repayment never writes its copy over a row the sweep has liquidated in
\* the meantime.
C19_NoInterleaving ==
    [][\A req \in in_flight :
         req \notin in_flight' =>
            \A l \in DOMAIN req.seen :
               loans'[l] # loans[l] =>
                  /\ req.op = "check_all_liquidations" => req.seen[l] = loans[l]
                  /\ req.op = "repay_loan" => loans[l].status # "LIQUIDATED"]_vars

\* what the ledger says user u was paid out less what u paid back
RECURSIVE LedgerNet(_, _)
LedgerNet(u, i) ==
    IF i > Len(ledger) THEN 0
    ELSE LedgerNet(u, i + 1)
         + (IF ledger[i].user # u THEN 0
            ELSE IF ledger[i].transaction_type = "LOAN_CREATE" THEN ledger[i].amount
            ELSE IF ledger[i].transaction_type = "LOAN_REPAY" THEN -ledger[i].amount
            ELSE 0)

\* C20: debits that overlap never take more than the account holds: every
\* balance is at least 0 and equals what the account received (0 at the
\* start, plus the loans paid out) minus the debits that succeeded.
C20_DebitsAccounted ==
    \A u \in Users : balance[u] >= 0 /\ balance[u] = LedgerNet(u, 1)

\* C21: a failure on one entity does not stop a batch stage.  When the sweep
\* fails on some loan, every other Active loan that it can process (at or
\* over max_ltv, no accrual due) has still been processed when it ends: it
\* is Liquidated.
C21_BatchFailureIsolated ==
    [][(Called("check_all_liquidations") /\ sweep_call /\ returned'.error # Null) =>
         \A l \in DOMAIN loans :
            (/\ loans[l].status = "ACTIVE"
             /\ AtOrOverLimit(l)
             /\ now - loans[l].last_interest_update < MinAccrualDays)
               => loans'[l].status = "LIQUIDATED"]_vars

\* C23: an interest accrual, of one loan or of all, never decreases the
\* current_debt of an Active loan with a positive interest_rate and a
\* non-negative current_debt.
C23_AccrualNeverDecreases ==
    [][(Called("update_loan_interest") \/ Called("update_all_loans")) =>
         \A l \in DOMAIN loans :
            (/\ loans[l].status = "ACTIVE"
             /\ loans[l].interest_rate > 0
             /\ loans[l].current_debt >= 0)
               => loans'[l].current_debt >= loans[l].current_debt]_vars

\* C23 witness: an accrual was due on an Active loan of 1400, it has been
\* called, and the debt is not below 1400
C23_Witness ==
    /\ returned.op = "update_loan_interest"
    /\ loans[returned.loan].status = "ACTIVE"
    /\ loans[returned.loan].interest_rate > 0
    /\ now - loans[returned.loan].last_interest_update >= MinAccrualDays
    /\ loans[returned.loan].principal_amount = 1400
    /\ loans[returned.loan].current_debt >= 1400

\* C24: accrue(loan) accrues when at least one whole day has passed since
\* last_interest_update: it returns the interest, adds it to current_debt,
\* sets last_interest_update to now and appends one ledger entry of minus
\* the interest.  Otherwise it returns 0 and leaves the loan and the ledger
\* as they were.
C24_AccrueContract ==
    [][Called("update_loan_interest") =>
       \A l \in DOMAIN loans :
          accrue(l) =>
             IF now - loans[l].last_interest_update >= 1
             THEN /\ returned'.error = Null
                  /\ 100 * (loans'[l].current_debt - loans[l].current_debt)
                       = returned'.amount
                  /\ loans'[l].last_interest_update = now
                  /\ Len(ledger') = Len(ledger) + 1
                  /\ 100 * ledger'[Len(ledger')].amount = -returned'.amount
             ELSE /\ returned'.error = Null
                  /\ returned'.amount = 0
                  /\ loans' = loans
                  /\ ledger' = ledger]_vars

\* The batch stages a caller can run again
BatchStages == {"update_all_loans", "process_all_yields"}

\* C30: a batch stage (accrual of all loans, distribution over all assets)
\* run a second time right after a completed run, with no time elapsed,
\* returns 0 and changes no loan, asset, balance, token or ledger entry.
C30_RerunIsNoOp ==
    [][\A op \in BatchStages :
          (returned.op = op /\ returned.error = Null /\ Called(op))
             => /\ returned'.error = Null
                /\ returned'.amount = 0
                /\ UNCHANGED <<loans, nfts, balance, dpos, ledger>>]_vars

\* C30 witness: with an Active loan of 1400 in place the accrual of all
\* loans has completed twice in a row at the same instant
C30_Witness ==
    /\ returned.op = "update_all_loans"
    /\ returned.tier = "again"
    /\ returned.error = Null
    /\ returned.amount = 0
    /\ \E l \in DOMAIN loans :
          loans[l].status = "ACTIVE" /\ loans[l].current_debt = 1400

\* The entries of a command's record that are an interest accrual of loan l
IsAccrualOf(entry, l) ==
    \/ entry.type = "update_all_loans"
    \/ entry.type = "update_loan_interest" /\ entry.loan = l

\* C25: within one run of a processing command the interest accrual comes
\* before the yield distribution: when the command calls the distribution,
\* it has already accrued the interest of every Active loan, and it accrues
\* no interest after it.
C25_InterestBeforeYield ==
    [][(Called("process_yields") \/ Called("auto_liquidation")) =>
         \A i \in DOMAIN returned'.list :
            returned'.list[i].type = "process_all_yields" =>
               /\ \A l \in DOMAIN loans :
                     loans[l].status = "ACTIVE" =>
                        \E j \in 1..(i - 1) : IsAccrualOf(returned'.list[j], l)
               /\ \A j \in DOMAIN returned'.list, l \in DOMAIN loans :
                     j > i => ~IsAccrualOf(returned'.list[j], l)]_vars

\* Loan l is as create_loan wrote it just now: no time has passed, nothing
\* has been repaid or accrued, and the asset's value is the one the loan
\* was granted against
JustOpened(l) ==
    /\ loans[l].status = "ACTIVE"
    /\ loans[l].last_interest_update = now
    /\ loans[l].current_debt = loans[l].principal_amount
    /\ CollateralOf(l).status = "COLLATERALIZED"
    /\ ~exceeds_max_loan(CollateralOf(l), loans[l].principal_amount)

\* C26: a sweep run right after an accepted borrow, with no time elapsed
\* and the asset's value unchanged, does not liquidate the new loan: the
\* loan is still Active after it.
C26_NewLoanSurvivesSweep ==
    [][(Called("check_all_liquidations") /\ sweep_call) =>
         \A l \in DOMAIN loans :
            JustOpened(l) => loans'[l].status = "ACTIVE"]_vars

\* the smaller of two numbers
Min(a, b) == IF a < b THEN a ELSE b

\* C27: when an asset, Collateralized or PartiallyLiquidated, backs an
\* Active loan with current_debt above 0 and a positive yield is due, a
\* distribute takes the smaller of the yield and the debt off the debt (to
\* the last decimal place of the field) and credits the owner's balance
\* with no more than the rest of the yield.
C27_YieldPaysDebtFirst ==
    [][Called("process_nft_yield") =>
       \A n \in Assets, l \in DOMAIN loans :
         (/\ distribute(n)
          /\ nfts[n].status \in {"COLLATERALIZED", "PARTIAL_LIQUIDATED"}
          /\ loans[l].nft_collateral = n
          /\ loans[l].status = "ACTIVE"
          /\ loans[l].current_debt > 0
          /\ days_since_yield(n) >= MinYieldDays
          /\ yield_num(nfts[n], days_since_yield(n)) > 0)
            => LET due == yield_num(nfts[n], days_since_yield(n)) \div yield_den
                   debt == loans[l].current_debt
               IN  /\ loans'[l].current_debt <= debt - Min(due, debt)
                   /\ loans'[l].current_debt >= debt - Min(due + 1, debt)
                   /\ balance'[nfts[n].owner] - balance[nfts[n].owner]
                        <= due + 1 - Min(due, debt)]_vars

\* C28: a loan and its collateral agree on their status: an asset that is
\* Collateralized has exactly one Active loan, the asset of every Active
\* loan is Collateralized or PartiallyLiquidated, and an asset that is
\* Deposited or Liquidated has no Active loan.
C28_StatusConsistent ==
    /\ \A n \in Assets :
          /\ nfts[n].status = "COLLATERALIZED"
                => Cardinality(ActiveLoansOf(loans, n)) = 1
          /\ nfts[n].status \in {"DEPOSITED", "LIQUIDATED"}
                => ActiveLoansOf(loans, n) = {}
    /\ \A l \in DOMAIN loans :
          loans[l].status = "ACTIVE"
             => CollateralOf(l).status \in {"COLLATERALIZED", "PARTIAL_LIQUIDATED"}

\* C28 witness: an asset whose first loan was repaid backs a second, Active
\* loan and is Collateralized
C28_Witness ==
    \E l1, l2 \in DOMAIN loans :
       /\ l1 # l2
       /\ loans[l1].nft_collateral = loans[l2].nft_collateral
       /\ loans[l1].status = "REPAID"
       /\ loans[l2].status = "ACTIVE"
       /\ CollateralOf(l2).status = "COLLATERALIZED"

\* the funds credited to user u by the loans i.. they took
RECURSIVE borrowed(_, _)
borrowed(u, i) ==
    IF i > Len(loans) THEN 0
    ELSE (IF loans[i].borrower = u THEN loans[i].principal_amount ELSE 0)
         + borrowed(u, i + 1)

\* C29: a liquidation, full or partial, called directly or by the sweep,
\* changes no user's balance: every account holds the same amount before and
\* after the call, and a borrower whose loans were liquidated still holds
\* all the funds those loans credited.
C29_LiquidationKeepsBalances ==
    /\ [][(Called("liquidate_loan") \/ Called("check_all_liquidations"))
            => balance' = balance]_vars
    /\ [](\A u \in Users : balance[u] = borrowed(u, 1))

\* C29 witness: a loan of 1400 has been liquidated in part by a direct call,
\* another loan was liquidated in full, and the borrower of the first still
\* holds the 1400 it was credited
C29_Witness ==
    /\ returned.op = "liquidate_loan"
    /\ returned.error = Null
    /\ loans[returned.loan].principal_amount = 1400
    /\ loans[returned.loan].current_debt < 1400
    /\ CollateralOf(returned.loan).status = "PARTIAL_LIQUIDATED"
    /\ \E l \in DOMAIN loans : loans[l].status = "LIQUIDATED"
    /\ balance[loans[returned.loan].borrower] >= 1400

====
